---- MODULE Spec2Model ----
(***************************************************************************)
(* Model of the IFRS claim accrual estimator: the chain-ladder /           *)
(* risk-adjustment / discounting pipeline of estimator.py, its older       *)
(* function-style version in app_old.py, and the rule-based bracket        *)
(* classifier of app.py.                                                   *)
(*                                                                         *)
(* Numbers.  The program computes in IEEE doubles; the model computes in   *)
(* fixed point, truncating after every multiplication and division:        *)
(*   - development factors and risk factors in thousandths (FScale),       *)
(*   - discount rates in thousandths (FScale), discount factors in         *)
(*     ten-thousandths (DScale),                                           *)
(*   - uncertainty scores in hundredths (UScale),                          *)
(*   - money in whole currency units,                                      *)
(*   - time to payment in twelfths of a year (months).                     *)
(***************************************************************************)
EXTENDS Integers, Sequences, FiniteSets, TLC

VARIABLES pc, op, args, ret, rate, now, claims_df, prev

vars == <<pc, op, args, ret, rate, now, claims_df, prev>>

----------------------------------------------------------------------------
(* Scales of the fixed-point representation.                                *)

FScale == 1000
DScale == 10000
UScale == 100

(* Bounds of the explored inputs.                                           *)

MaxPeriod == 11        \* development periods run up to MaxPeriod
NegPeriods == 11       \* ... and down to -NegPeriods
MaxMonths == 13        \* times to payment run up to MaxMonths months
NegMonths == 12        \* ... and down to -NegMonths months
MaxDuration == 14      \* investigation durations 0..MaxDuration, and 40
MaxNow == 2            \* the clock runs over the months 0..MaxNow
MaxBatch == 2          \* a batch holds up to MaxBatch claims

Min(a, b) == IF a <= b THEN a ELSE b
Max(a, b) == IF a >= b THEN a ELSE b

----------------------------------------------------------------------------
(* app_old.py: the shipped tables.                                          *)

LDF_PATTERNS ==
  ( "Auto" :> <<3500, 2200, 1500, 1200, 1100, 1050, 1020, 1010, 1005, 1000>> ) @@
  ( "Property" :> <<2800, 1900, 1400, 1150, 1080, 1040, 1020, 1010, 1005, 1000>> ) @@
  ( "Liability" :> <<5000, 3500, 2500, 1800, 1400, 1200, 1100, 1050, 1020, 1010>> ) @@
  ( "Health" :> <<2000, 1500, 1200, 1100, 1050, 1020, 1010, 1005, 1000, 1000>> ) @@
  ( "Workers Comp" :> <<4500, 3000, 2200, 1600, 1300, 1150, 1080, 1040, 1020, 1010>> )

RISK_ADJUSTMENT_FACTORS == [ Low |-> 50, Medium |-> 100, High |-> 200 ]

(* The claim types and risk levels a caller may pass: every key of the      *)
(* tables and one string that is not a key.                                 *)
ClaimTypes == DOMAIN LDF_PATTERNS \cup {"Marine"}
RiskLevels == DOMAIN RISK_ADJUSTMENT_FACTORS \cup {"Extreme"}

----------------------------------------------------------------------------
(* Python and numpy primitives.                                             *)

(* s[start:] : a negative start counts from the end, and is cut at 0.       *)
SliceFrom(s, start) ==
  LET k == IF start < 0 THEN Max(Len(s) + start, 0) ELSE Min(start, Len(s))
  IN  SubSeq(s, k + 1, Len(s))

(* a * b of two reals, b in thousandths.                                    *)
MulF(a, b) == (a * b) \div FScale

(* np.prod: multiply from the left, starting from 1.0.                      *)
RECURSIVE ProdFrom(_, _)
ProdFrom(acc, s) ==
  IF s = <<>> THEN acc ELSE ProdFrom(MulF(acc, Head(s)), Tail(s))

NpProd_SkipFirst(s) == ProdFrom(FScale, Tail(s))

NpProd(s) == ProdFrom(FScale, s)

----------------------------------------------------------------------------
(* estimator.py: ChainLadder, constructed with the shipped table.           *)

PatternsGet_NoAutoFallback(claim_type) ==
  IF claim_type \in DOMAIN LDF_PATTERNS THEN LDF_PATTERNS[claim_type] ELSE <<FScale>>

PatternsGet(claim_type) ==
  IF claim_type \in DOMAIN LDF_PATTERNS
  THEN LDF_PATTERNS[claim_type]
  ELSE IF "Auto" \in DOMAIN LDF_PATTERNS THEN LDF_PATTERNS["Auto"] ELSE <<FScale>>

get_cumulative_factor_SliceAfter(claim_type, development_period) ==
  LET ldfs == PatternsGet(claim_type)
      period == Min(development_period, Len(ldfs) - 1)
  IN  IF period >= Len(ldfs) - 1
      THEN FScale
      ELSE NpProd(SliceFrom(ldfs, period + 1))

get_cumulative_factor_LastIncluded(claim_type, development_period) ==
  LET ldfs == PatternsGet(claim_type)
      period == Min(development_period, Len(ldfs) - 1)
  IN  IF period > Len(ldfs) - 1
      THEN FScale
      ELSE NpProd(SliceFrom(ldfs, period))

get_cumulative_factor(claim_type, development_period) ==
  LET ldfs == PatternsGet(claim_type)
      period == Min(development_period, Len(ldfs) - 1)
  IN  IF period >= Len(ldfs) - 1
      THEN FScale
      ELSE NpProd(SliceFrom(ldfs, period))

estimate_ultimate(incurred, claim_type, development_period) ==
  LET cdf == get_cumulative_factor(claim_type, development_period)
      ultimate == MulF(incurred, cdf)
  IN  [ incurred |-> incurred,
        development_period |-> development_period,
        cumulative_factor |-> cdf,
        ultimate_loss |-> ultimate,
        ibnr |-> ultimate - incurred ]

----------------------------------------------------------------------------
(* estimator.py: RiskAdjustment, constructed with the shipped factors.      *)

FactorsGet(risk_level) ==
  IF risk_level \in DOMAIN RISK_ADJUSTMENT_FACTORS
  THEN RISK_ADJUSTMENT_FACTORS[risk_level]
  ELSE 100

RiskAdjustment_calculate(ultimate_loss, risk_level) ==
  LET factor == FactorsGet(risk_level)
      adjustment == MulF(ultimate_loss, factor)
  IN  [ ultimate_loss |-> ultimate_loss,
        risk_level |-> risk_level,
        risk_factor |-> factor,
        risk_adjustment |-> adjustment ]

----------------------------------------------------------------------------
(* (1 + r) ** (-t) in fixed point, r in thousandths and t in twelfths of a  *)
(* year.  The twelfth root of 1 + r is the largest g whose twelfth power    *)
(* does not exceed it; the power is taken by repeated multiplication (for   *)
(* a negative exponent) or division (for a positive one).                   *)

RECURSIVE PowD(_, _)
PowD(g, n) == IF n = 0 THEN DScale ELSE (PowD(g, n - 1) * g) \div DScale

Rates == {0, 35, 100}

(* MonthlyRoot(r) is the twelfth root of 1 + r; MonthlyGrowth tabulates it  *)
(* over the rates in use (the @@ makes the table an explicit function).     *)
MonthlyRoot(r) ==
  CHOOSE g \in DScale .. (DScale + r) :
    PowD(g, 12) <= DScale + 10 * r /\ PowD(g + 1, 12) > DScale + 10 * r

MonthlyGrowth == [ r \in Rates |-> MonthlyRoot(r) ] @@ <<>>

RECURSIVE DivD(_, _, _)
DivD(acc, g, n) == IF n = 0 THEN acc ELSE DivD((acc * DScale) \div g, g, n - 1)

(* (1 + r) ** (-months / 12) *)
PowNeg(r, months) ==
  IF months >= 0
  THEN DivD(DScale, MonthlyGrowth[r], months)
  ELSE PowD(MonthlyGrowth[r], -months)

(* a * d of two reals, d a discount factor.                                 *)
MulD(a, d) == (a * d) \div DScale

----------------------------------------------------------------------------
(* estimator.py: Discounting; self_rate is the rate given at construction,  *)
(* years is in twelfths of a year.                                          *)

calculate_pv(self_rate, future_value, years) ==
  LET discount_factor == IF years <= 0 THEN DScale ELSE PowNeg(self_rate, years)
      present_value == IF years <= 0 THEN future_value
                       ELSE MulD(future_value, discount_factor)
  IN  [ future_value |-> future_value,
        years |-> years,
        discount_rate |-> self_rate,
        discount_factor |-> discount_factor,
        present_value |-> present_value,
        discount_amount |-> future_value - present_value ]

----------------------------------------------------------------------------
(* estimator.py: IFRS17Accrual.                                             *)

(* Step 2: outstanding = ultimate - paid *)
Outstanding_Clamped(ultimate, paid) == Max(0, ultimate - paid)

Outstanding(ultimate, paid) == ultimate - paid

(* Step 5: total_accrual = pv_outstanding['present_value'] +                *)
(*                         risk_adj['risk_adjustment']                      *)
TotalAccrual_Undiscounted(pv_outstanding, risk_adj) ==
  pv_outstanding.future_value + risk_adj.risk_adjustment

TotalAccrual(pv_outstanding, risk_adj) ==
  pv_outstanding.present_value + risk_adj.risk_adjustment

calculate_accrual(self_rate, incurred, paid, claim_type, development_period, years_to_settlement, risk_level) ==
  LET ultimate_est == estimate_ultimate(incurred, claim_type, development_period)
      ultimate == ultimate_est.ultimate_loss
      outstanding == Outstanding(ultimate, paid)
      risk_adj == RiskAdjustment_calculate(ultimate, risk_level)
      pv_ultimate == calculate_pv(self_rate, ultimate, years_to_settlement)
      pv_outstanding == calculate_pv(self_rate, outstanding, years_to_settlement)
      total_accrual == TotalAccrual(pv_outstanding, risk_adj)
  IN  [ incurred |-> incurred,
        paid |-> paid,
        ultimate_loss |-> ultimate,
        outstanding_claims |-> outstanding,
        risk_adjustment |-> risk_adj.risk_adjustment,
        pv_ultimate |-> pv_ultimate.present_value,
        pv_outstanding |-> pv_outstanding.present_value,
        discount_amount |-> pv_ultimate.discount_amount,
        total_accrual |-> total_accrual,
        development_period |-> development_period,
        years_to_settlement |-> years_to_settlement,
        risk_level |-> risk_level ]

----------------------------------------------------------------------------
(* pandas: a DataFrame is its column labels, in order, and its rows, each   *)
(* the sequence of the values under those labels.  The row index is not     *)
(* modelled: every frame here carries the default index 0..n-1, which       *)
(* reset_index(drop=True) leaves as it is.                                  *)

NoFrame == [ columns |-> <<>>, data |-> <<>> ]

(* The positions of the columns labelled name, in order.                    *)
ColumnsNamed(df, name) ==
  SelectSeq([ k \in 1 .. Len(df.columns) |-> k ], LAMBDA k : df.columns[k] = name)

HasColumn(df, name) == ColumnsNamed(df, name) # <<>>

(* row[name], for one row of iterrows() and a label that occurs once.       *)
RowGet(df, i, name) == df.data[i][ColumnsNamed(df, name)[1]]

(* df[name] = values: replaces the column if there is one, appends it       *)
(* otherwise.                                                               *)
SetColumn(df, name, values) ==
  IF HasColumn(df, name)
  THEN [ df EXCEPT !.data =
           [ i \in 1 .. Len(df.data) |->
               [ df.data[i] EXCEPT ![ColumnsNamed(df, name)[1]] = values[i] ] ] ]
  ELSE [ columns |-> Append(df.columns, name),
         data |-> [ i \in 1 .. Len(df.data) |-> Append(df.data[i], values[i]) ] ]

(* pd.concat([a, b], axis=1) of two frames with the same index.             *)
ConcatColumns(a, b) ==
  [ columns |-> a.columns \o b.columns,
    data |-> [ i \in 1 .. Len(a.data) |-> a.data[i] \o b.data[i] ] ]

(* The keys of the dictionary calculate_accrual returns, in order.          *)
AccrualKeys ==
  << "incurred", "paid", "ultimate_loss", "outstanding_claims", "risk_adjustment",
     "pv_ultimate", "pv_outstanding", "discount_amount", "total_accrual",
     "development_period", "years_to_settlement", "risk_level" >>

(* pd.DataFrame(results) of a list of such dictionaries; an empty list      *)
(* gives a frame without columns.                                           *)
FrameOfResults(results) ==
  IF results = <<>> THEN NoFrame
  ELSE [ columns |-> AccrualKeys,
         data |-> [ i \in 1 .. Len(results) |->
                      [ k \in 1 .. Len(AccrualKeys) |-> results[i][AccrualKeys[k]] ] ] ]

(* df[name].sum(): one number for one column of that label, one number per  *)
(* column when the label occurs several times.                              *)
RECURSIVE SumColumn(_, _, _)
SumColumn(df, k, n) == IF n = 0 THEN 0 ELSE SumColumn(df, k, n - 1) + df.data[n][k]

ColumnSum(df, name) ==
  LET ks == ColumnsNamed(df, name)
      sums == [ j \in 1 .. Len(ks) |-> SumColumn(df, ks[j], Len(df.data)) ]
  IN  IF Len(ks) = 1 THEN sums[1] ELSE sums

(* df[name].mean(), in thousandths; NaN for a frame without rows.           *)
ColumnMean(df, name) ==
  LET ks == ColumnsNamed(df, name)
      n == Len(df.data)
      means == [ j \in 1 .. Len(ks) |->
                   IF n = 0 THEN "nan" ELSE (SumColumn(df, ks[j], n) * FScale) \div n ]
  IN  IF Len(ks) = 1 THEN means[1] ELSE means

----------------------------------------------------------------------------
(* estimator.py: the batch operations.  Each gives the frame the caller     *)
(* passed as it is after the call (frame), and what the call returns or     *)
(* raises.                                                                  *)

ChainLadder_batch_estimate(claims_df_in) ==
  LET n == Len(claims_df_in.data)
      results == [ i \in 1 .. n |->
                     estimate_ultimate(RowGet(claims_df_in, i, "incurred"),
                                       RowGet(claims_df_in, i, "claim_type"),
                                       RowGet(claims_df_in, i, "development_period")) ]
      df1 == SetColumn(claims_df_in, "cumulative_factor",
                       [ i \in 1 .. n |-> results[i].cumulative_factor ])
      df2 == SetColumn(df1, "ultimate_loss", [ i \in 1 .. n |-> results[i].ultimate_loss ])
      df3 == SetColumn(df2, "ibnr", [ i \in 1 .. n |-> results[i].ibnr ])
  IN  [ frame |-> df3, returned |-> df3, raised |-> "none" ]

RiskAdjustment_batch_calculate(claims_df_in) ==
  LET n == Len(claims_df_in.data)
      results == [ i \in 1 .. n |->
                     RiskAdjustment_calculate(RowGet(claims_df_in, i, "ultimate_loss"),
                                              RowGet(claims_df_in, i, "risk_level")) ]
      df1 == SetColumn(claims_df_in, "risk_factor",
                       [ i \in 1 .. n |-> results[i].risk_factor ])
      df2 == SetColumn(df1, "risk_adjustment",
                       [ i \in 1 .. n |-> results[i].risk_adjustment ])
  IN  [ frame |-> df2, returned |-> df2, raised |-> "none" ]

Discounting_batch_calculate(self_rate, claims_df_in) ==
  LET n == Len(claims_df_in.data)
      results == [ i \in 1 .. n |->
                     calculate_pv(self_rate,
                                  RowGet(claims_df_in, i, "ultimate_loss"),
                                  RowGet(claims_df_in, i, "years_to_settlement")) ]
      df1 == SetColumn(claims_df_in, "discount_factor",
                       [ i \in 1 .. n |-> results[i].discount_factor ])
      df2 == SetColumn(df1, "present_value",
                       [ i \in 1 .. n |-> results[i].present_value ])
      df3 == SetColumn(df2, "discount_amount",
                       [ i \in 1 .. n |-> results[i].discount_amount ])
  IN  [ frame |-> df3, returned |-> df3, raised |-> "none" ]

(* The results list batch_calculate builds, one entry per row, in order.    *)
AccrualOfRow(self_rate, df, i) ==
  calculate_accrual(self_rate,
                    RowGet(df, i, "incurred"), RowGet(df, i, "paid"),
                    RowGet(df, i, "claim_type"), RowGet(df, i, "development_period"),
                    RowGet(df, i, "years_to_settlement"), RowGet(df, i, "risk_level"))

AccrualResults_Prepended(self_rate, df) ==
  [ i \in 1 .. Len(df.data) |-> AccrualOfRow(self_rate, df, Len(df.data) + 1 - i) ]

AccrualResults(self_rate, df) ==
  [ i \in 1 .. Len(df.data) |-> AccrualOfRow(self_rate, df, i) ]

IFRS17Accrual_batch_calculate(self_rate, claims_df_in) ==
  LET results_df == FrameOfResults(AccrualResults(self_rate, claims_df_in))
      output_df == ConcatColumns(claims_df_in, results_df)
  IN  [ frame |-> claims_df_in, returned |-> output_df, raised |-> "none" ]

(* The frame is rebound locally when it lacks total_accrual; a label that   *)
(* is then still missing makes df[label] raise KeyError.                    *)
SummaryColumns ==
  << "incurred", "paid", "ultimate_loss", "outstanding_claims", "risk_adjustment",
     "discount_amount", "total_accrual", "development_period", "years_to_settlement" >>

get_summary_statistics(self_rate, claims_df_in) ==
  LET df == IF HasColumn(claims_df_in, "total_accrual") THEN claims_df_in
            ELSE IFRS17Accrual_batch_calculate(self_rate, claims_df_in).returned
  IN  IF \E k \in 1 .. Len(SummaryColumns) : ~HasColumn(df, SummaryColumns[k])
      THEN [ frame |-> claims_df_in, returned |-> <<>>, raised |-> "KeyError" ]
      ELSE [ frame |-> claims_df_in,
             returned |->
               [ total_claims |-> Len(df.data),
                 total_incurred |-> ColumnSum(df, "incurred"),
                 total_paid |-> ColumnSum(df, "paid"),
                 total_ultimate |-> ColumnSum(df, "ultimate_loss"),
                 total_outstanding |-> ColumnSum(df, "outstanding_claims"),
                 total_risk_adjustment |-> ColumnSum(df, "risk_adjustment"),
                 total_discount |-> ColumnSum(df, "discount_amount"),
                 total_accrual |-> ColumnSum(df, "total_accrual"),
                 avg_development_period |-> ColumnMean(df, "development_period"),
                 avg_years_to_settlement |-> ColumnMean(df, "years_to_settlement") ],
             raised |-> "none" ]

----------------------------------------------------------------------------
(* app_old.py: the function-style pipeline.                                 *)

calculate_ultimate_loss_Rounded(incurred_loss, claim_type, months_since_occurrence) ==
  LET ldfs == IF claim_type \in DOMAIN LDF_PATTERNS
              THEN LDF_PATTERNS[claim_type] ELSE LDF_PATTERNS["Auto"]
      years_developed == Min((months_since_occurrence + 6) \div 12, Len(ldfs) - 1)
      cdf == IF years_developed >= Len(ldfs) - 1
             THEN FScale
             ELSE NpProd(SliceFrom(ldfs, years_developed))
  IN  MulF(incurred_loss, cdf)

calculate_ultimate_loss(incurred_loss, claim_type, months_since_occurrence) ==
  LET ldfs == IF claim_type \in DOMAIN LDF_PATTERNS
              THEN LDF_PATTERNS[claim_type] ELSE LDF_PATTERNS["Auto"]
      years_developed == Min(months_since_occurrence \div 12, Len(ldfs) - 1)
      cdf == IF years_developed >= Len(ldfs) - 1
             THEN FScale
             ELSE NpProd(SliceFrom(ldfs, years_developed))
  IN  MulF(incurred_loss, cdf)

calculate_risk_adjustment(ultimate_loss, risk_level) ==
  LET factor == IF risk_level \in DOMAIN RISK_ADJUSTMENT_FACTORS
                THEN RISK_ADJUSTMENT_FACTORS[risk_level] ELSE 100
  IN  MulF(ultimate_loss, factor)

(* Returns the pair (present_value, discount_amount).                       *)
calculate_discount(ultimate_loss, months_to_settlement, discount_rate) ==
  LET discount_factor == PowNeg(discount_rate, months_to_settlement)
      present_value == MulD(ultimate_loss, discount_factor)
      discount_amount == ultimate_loss - present_value
  IN  <<present_value, discount_amount>>

(* Dates are month numbers (12 * year + month); today is datetime.now().    *)
(* The summary text interpolates RISK_ADJUSTMENT_FACTORS[risk_level], a     *)
(* plain subscript: it raises KeyError for a level that is not a key, after *)
(* the figures have been computed.                                          *)
estimate_claim_accrual(today, claim_type, incurred_loss, paid_loss, occurrence, settlement, risk_level, discount_rate) ==
  LET months_since_occurrence == Max(0, today - occurrence)
      months_to_settlement == Max(0, settlement - today)
      ultimate_loss ==
        calculate_ultimate_loss(incurred_loss, claim_type, months_since_occurrence)
      outstanding_claims == ultimate_loss - paid_loss
      risk_adjustment == calculate_risk_adjustment(ultimate_loss, risk_level)
      pvu == calculate_discount(ultimate_loss, months_to_settlement, discount_rate)
      pvo == calculate_discount(outstanding_claims, months_to_settlement, discount_rate)
      total_accrual == pvo[1] + risk_adjustment
  IN  [ months_since_occurrence |-> months_since_occurrence,
        months_to_settlement |-> months_to_settlement,
        ultimate_loss |-> ultimate_loss,
        outstanding_claims |-> outstanding_claims,
        risk_adjustment |-> risk_adjustment,
        pv_ultimate |-> pvu[1],
        discount_amount |-> pvu[2],
        pv_outstanding |-> pvo[1],
        total_accrual |-> total_accrual,
        raised |-> IF risk_level \in DOMAIN RISK_ADJUSTMENT_FACTORS
                   THEN "none" ELSE "KeyError" ]

----------------------------------------------------------------------------
(* app.py: the bracket classifier.                                          *)

stage_weights ==
  ( "Reported" :> 1 ) @@ ( "Under Investigation" :> 2 ) @@ ( "Evaluated" :> 3 ) @@
  ( "Settlement Negotiation" :> 4 ) @@ ( "Closed" :> 5 )

severity_weights ==
  ( "Minor" :> 1 ) @@ ( "Moderate" :> 2 ) @@ ( "Severe" :> 3 ) @@ ( "Catastrophic" :> 4 )

WeightGet_DefaultZero(table, key) == IF key \in DOMAIN table THEN table[key] ELSE 0

WeightGet(table, key) == IF key \in DOMAIN table THEN table[key] ELSE 1

Stages == DOMAIN stage_weights \cup {"Reopened"}
Severities == DOMAIN severity_weights \cup {"Unknown"}
IbnrFlags == {"Yes", "No"}

generate_explanation(claim_stage, severity_bracket, investigation_duration, ibnr_flag, bracket, accrual_level, warnings, uncertainty_score) ==
  [ header |-> <<claim_stage, severity_bracket, investigation_duration, ibnr_flag,
                 bracket, accrual_level, uncertainty_score>>,
    factors |->
      << IF claim_stage = "Closed" THEN "Claim is closed"
         ELSE IF claim_stage = "Settlement Negotiation" THEN "Active settlement discussions"
         ELSE IF claim_stage = "Evaluated" THEN "Claim evaluated"
         ELSE IF claim_stage = "Under Investigation" THEN "Investigation ongoing"
         ELSE "Early stage",
         IF severity_bracket = "Catastrophic" THEN "Catastrophic severity"
         ELSE IF severity_bracket = "Severe" THEN "Severe claims"
         ELSE IF severity_bracket = "Moderate" THEN "Moderate severity"
         ELSE "Minor severity",
         IF investigation_duration > 12 THEN "Extended investigation"
         ELSE IF investigation_duration > 6 THEN "Moderate investigation period"
         ELSE "Standard investigation timeframe",
         IF ibnr_flag = "Yes" THEN "Incurred But Not Reported"
         ELSE "Reported claim with known details" >>,
    warnings |-> warnings ]

(* The bracket of an accumulated accrual level.                             *)
Bracket_Strict(accrual_level) ==
  IF accrual_level < 3 THEN "Band A (Low Reserve)"
  ELSE IF accrual_level < 5 THEN "Band B (Moderate Reserve)"
  ELSE IF accrual_level < 7 THEN "Band C (Elevated Reserve)"
  ELSE IF accrual_level < 9 THEN "Band D (High Reserve)"
  ELSE "Band E (Maximum Reserve)"

Bracket(accrual_level) ==
  IF accrual_level <= 3 THEN "Band A (Low Reserve)"
  ELSE IF accrual_level <= 5 THEN "Band B (Moderate Reserve)"
  ELSE IF accrual_level <= 7 THEN "Band C (Elevated Reserve)"
  ELSE IF accrual_level <= 9 THEN "Band D (High Reserve)"
  ELSE "Band E (Maximum Reserve)"

(* What an IBNR flag adds to the uncertainty score.                         *)
IbnrUncertainty_Subtracted(ibnr_flag) == IF ibnr_flag = "Yes" THEN -30 ELSE 0

IbnrUncertainty_Heavier(ibnr_flag) == IF ibnr_flag = "Yes" THEN 50 ELSE 0

IbnrUncertainty(ibnr_flag) == IF ibnr_flag = "Yes" THEN 30 ELSE 0

(* The locals of calculate_accrual_bracket at its return statement, and the *)
(* tuple it returns.                                                        *)
calculate_accrual_bracket(claim_stage, severity_bracket, investigation_duration, ibnr_flag) ==
  LET long == investigation_duration > 12
      mid == ~long /\ investigation_duration > 6
      ibnr == ibnr_flag = "Yes"
      cat == severity_bracket = "Catastrophic"
      accrual_level ==
        WeightGet(stage_weights, claim_stage)
        + WeightGet(severity_weights, severity_bracket)
        + (IF long THEN 2 ELSE IF mid THEN 1 ELSE 0)
        + (IF ibnr THEN 2 ELSE 0)
      warnings ==
        (IF long THEN <<"Extended investigation period (>12 months)">>
         ELSE IF mid THEN <<"Moderate investigation period (6-12 months)">>
         ELSE <<>>)
        \o (IF ibnr THEN <<"IBNR claim">> ELSE <<>>)
        \o (IF cat THEN <<"Catastrophic severity">> ELSE <<>>)
      accumulated ==
        (IF long THEN 25 ELSE IF mid THEN 15 ELSE 0)
        + IbnrUncertainty(ibnr_flag)
        + (IF claim_stage = "Reported" THEN 20
           ELSE IF claim_stage = "Under Investigation" THEN 15 ELSE 0)
        + (IF cat THEN 20 ELSE 0)
      uncertainty_score == Min(accumulated, UScale)
      bracket == Bracket(accrual_level)
      explanation ==
        generate_explanation(claim_stage, severity_bracket, investigation_duration,
                             ibnr_flag, bracket, accrual_level, warnings,
                             uncertainty_score)
  IN  [ accrual_level |-> accrual_level,
        warnings |-> warnings,
        accumulated |-> accumulated,
        uncertainty_score |-> uncertainty_score,
        bracket |-> bracket,
        returned |-> <<bracket, explanation, uncertainty_score>> ]

----------------------------------------------------------------------------
(* The inputs the calls are explored with.                                  *)

Periods == (-NegPeriods) .. MaxPeriod
Months == (-NegMonths) .. MaxMonths
Durations == (0 .. MaxDuration) \cup {40}

Incurreds == {0, 1000, 5000}

(* The incurred loss the form starts with; the chain ladder is also         *)
(* explored with it, on the Auto pattern.                                   *)
ExampleIncurred == 50000
UltimateInputs == (Incurreds \X ClaimTypes) \cup {<<ExampleIncurred, "Auto">>}
FutureValues == {-500, 0, 1000, 100000}

(* The whole pipeline is explored on a selection of the above.              *)
AccrualIncurreds == {0, 1000}
AccrualPaids == {0, 400, 2000}
AccrualPeriods == {-1, 0, 4, 9, MaxPeriod}
AccrualMonths == {-NegMonths, 0, 6, MaxMonths}
Occurrences == {-120, -60, -10, 0, 2}

(* The frames a caller passes to the batch operations: the claims of up to  *)
(* MaxBatch rows, in any order and with repetitions; such a frame after     *)
(* ChainLadder.batch_estimate; and the output of the accrual batch.         *)
ClaimColumns ==
  << "incurred", "paid", "claim_type", "development_period",
     "years_to_settlement", "risk_level" >>

ClaimRows ==
  { <<1000, 400, "Auto", 0, 6, "Medium">>,
    <<1000, 2000, "Liability", 9, 0, "Extreme">>,
    <<0, 0, "Marine", 4, 13, "Low">> }

ClaimFrames ==
  { [ columns |-> ClaimColumns, data |-> rows ] :
      rows \in UNION { [ 1 .. n -> ClaimRows ] : n \in 0 .. MaxBatch } }

EstimatedFrames == { ChainLadder_batch_estimate(df).returned : df \in ClaimFrames }
Settlements == {-1, 0, 6, MaxMonths + 1}

----------------------------------------------------------------------------
(* The state: the estimator objects are constructed with the shipped tables *)
(* and a discount rate; a caller then makes one call after another.  op,    *)
(* args and ret hold the call in progress, its arguments and its result;    *)
(* now is the month datetime.now() falls in; prev is an earlier call the     *)
(* caller has kept to compare a later one with, if any.                     *)

NoCall == [ op |-> "none", args |-> <<>>, ret |-> <<>> ]

Init ==
  /\ pc = "idle"
  /\ op = "none"
  /\ args = <<>>
  /\ ret = <<>>
  /\ rate \in Rates
  /\ now = 0
  /\ claims_df = NoFrame
  /\ prev = NoCall

Call(name, a, r) ==
  /\ pc' = "done"
  /\ op' = name
  /\ args' = a
  /\ ret' = r
  /\ UNCHANGED <<rate, now, claims_df, prev>>

(* A batch call: the caller holds the frame df and passes it; out is what   *)
(* the operation makes of it.  claims_df is the caller's frame after the    *)
(* call.                                                                    *)
CallBatch(name, df, out) ==
  /\ pc' = "done"
  /\ op' = name
  /\ args' = [ claims_df |-> df ]
  /\ ret' = [ returned |-> out.returned, raised |-> out.raised ]
  /\ claims_df' = out.frame
  /\ UNCHANGED <<rate, now, prev>>

Call_batch_estimate ==
  /\ pc = "idle"
  /\ \E df \in ClaimFrames :
       CallBatch("ChainLadder.batch_estimate", df, ChainLadder_batch_estimate(df))

Call_RiskAdjustment_batch_calculate ==
  /\ pc = "idle"
  /\ \E df \in EstimatedFrames :
       CallBatch("RiskAdjustment.batch_calculate", df,
                 RiskAdjustment_batch_calculate(df))

Call_Discounting_batch_calculate ==
  /\ pc = "idle"
  /\ \E df \in EstimatedFrames :
       CallBatch("Discounting.batch_calculate", df,
                 Discounting_batch_calculate(rate, df))

Call_IFRS17Accrual_batch_calculate ==
  /\ pc = "idle"
  /\ \E df \in ClaimFrames :
       CallBatch("IFRS17Accrual.batch_calculate", df,
                 IFRS17Accrual_batch_calculate(rate, df))

Call_get_summary_statistics ==
  /\ pc = "idle"
  /\ \E df \in ClaimFrames
              \cup { IFRS17Accrual_batch_calculate(rate, f).returned : f \in ClaimFrames } :
       CallBatch("get_summary_statistics", df, get_summary_statistics(rate, df))

Call_get_cumulative_factor ==
  /\ pc = "idle"
  /\ \E ct \in ClaimTypes, p \in Periods :
       Call("get_cumulative_factor",
            [claim_type |-> ct, development_period |-> p],
            [value |-> get_cumulative_factor(ct, p)])

Call_estimate_ultimate ==
  /\ pc = "idle"
  /\ \E in \in UltimateInputs, p \in Periods :
       Call("estimate_ultimate",
            [incurred |-> in[1], claim_type |-> in[2], development_period |-> p],
            estimate_ultimate(in[1], in[2], p))

Call_RiskAdjustment_calculate ==
  /\ pc = "idle"
  /\ \E u \in FutureValues, rl \in RiskLevels :
       Call("RiskAdjustment.calculate",
            [ultimate_loss |-> u, risk_level |-> rl],
            RiskAdjustment_calculate(u, rl))

Call_calculate_pv ==
  /\ pc = "idle"
  /\ \E fv \in FutureValues, y \in Months :
       Call("calculate_pv",
            [future_value |-> fv, years |-> y],
            calculate_pv(rate, fv, y))

Call_calculate_accrual ==
  /\ pc = "idle"
  /\ \E inc \in AccrualIncurreds, paid \in AccrualPaids, ct \in ClaimTypes,
        p \in AccrualPeriods, y \in AccrualMonths, rl \in RiskLevels :
       Call("calculate_accrual",
            [incurred |-> inc, paid |-> paid, claim_type |-> ct,
             development_period |-> p, years_to_settlement |-> y, risk_level |-> rl],
            calculate_accrual(rate, inc, paid, ct, p, y, rl))

Call_calculate_ultimate_loss ==
  /\ pc = "idle"
  /\ \E in \in UltimateInputs, p \in Periods, m \in {0, 5, 11} :
       Call("calculate_ultimate_loss",
            [incurred_loss |-> in[1], claim_type |-> in[2],
             months_since_occurrence |-> 12 * p + m],
            [value |-> calculate_ultimate_loss(in[1], in[2], 12 * p + m)])

Call_calculate_risk_adjustment ==
  /\ pc = "idle"
  /\ \E u \in FutureValues, rl \in RiskLevels :
       Call("calculate_risk_adjustment",
            [ultimate_loss |-> u, risk_level |-> rl],
            [value |-> calculate_risk_adjustment(u, rl)])

Call_calculate_discount ==
  /\ pc = "idle"
  /\ \E fv \in FutureValues, m \in Months, dr \in Rates :
       Call("calculate_discount",
            [ultimate_loss |-> fv, months_to_settlement |-> m, discount_rate |-> dr],
            LET r == calculate_discount(fv, m, dr)
            IN  [present_value |-> r[1], discount_amount |-> r[2]])

Call_estimate_claim_accrual ==
  /\ pc = "idle"
  /\ \E ct \in ClaimTypes, inc \in AccrualIncurreds, paid \in AccrualPaids,
        occ \in Occurrences, sett \in Settlements, rl \in RiskLevels, dr \in Rates :
       Call("estimate_claim_accrual",
            [claim_type |-> ct, incurred_loss |-> inc, paid_loss |-> paid,
             occurrence |-> occ, settlement |-> sett, risk_level |-> rl,
             discount_rate |-> dr],
            estimate_claim_accrual(now, ct, inc, paid, occ, sett, rl, dr))

Call_calculate_accrual_bracket ==
  /\ pc = "idle"
  /\ \E st \in Stages, sv \in Severities, d \in Durations, fl \in IbnrFlags :
       Call("calculate_accrual_bracket",
            [claim_stage |-> st, severity_bracket |-> sv,
             investigation_duration |-> d, ibnr_flag |-> fl],
            calculate_accrual_bracket(st, sv, d, fl))

(* The caller has taken the result (or the failure) and is ready to call    *)
(* again.                                                                   *)
Return ==
  /\ pc = "done"
  /\ pc' = "idle"
  /\ op' = "none"
  /\ args' = <<>>
  /\ ret' = <<>>
  /\ claims_df' = NoFrame
  /\ UNCHANGED <<rate, now, prev>>

(* Time passes between calls.                                               *)
Tick ==
  /\ pc = "idle"
  /\ now < MaxNow
  /\ now' = now + 1
  /\ UNCHANGED <<pc, op, args, ret, rate, claims_df, prev>>

Next ==
  \/ Call_get_cumulative_factor
  \/ Call_estimate_ultimate
  \/ Call_RiskAdjustment_calculate
  \/ Call_calculate_pv
  \/ Call_calculate_accrual
  \/ Call_calculate_ultimate_loss
  \/ Call_calculate_risk_adjustment
  \/ Call_calculate_discount
  \/ Call_estimate_claim_accrual
  \/ Call_calculate_accrual_bracket
  \/ Call_batch_estimate
  \/ Call_RiskAdjustment_batch_calculate
  \/ Call_Discounting_batch_calculate
  \/ Call_IFRS17Accrual_batch_calculate
  \/ Call_get_summary_statistics
  \/ Return
  \/ Tick

Spec == Init /\ [][Next]_vars

Done(name) == pc = "done" /\ op = name

----------------------------------------------------------------------------
(* A caller that makes a call, keeps its arguments and result, lets time    *)
(* pass and other calls run, and makes the same call again.                 *)

Remember ==
  /\ pc = "done"
  /\ prev = NoCall
  /\ prev' = [ op |-> op, args |-> args, ret |-> ret ]
  /\ pc' = "idle"
  /\ op' = "none"
  /\ args' = <<>>
  /\ ret' = <<>>
  /\ UNCHANGED <<rate, now, claims_df>>

Between ==
  /\ pc = "idle"
  /\ prev # NoCall
  /\ Call("calculate_risk_adjustment",
          [ultimate_loss |-> 1000, risk_level |-> "Medium"],
          [value |-> calculate_risk_adjustment(1000, "Medium")])

Repeat ==
  /\ pc = "idle"
  /\ prev # NoCall
  /\ LET a == prev.args
     IN  CASE prev.op = "calculate_accrual" ->
                Call(prev.op, a,
                     calculate_accrual(rate, a.incurred, a.paid, a.claim_type,
                                       a.development_period, a.years_to_settlement,
                                       a.risk_level))
           [] prev.op = "calculate_accrual_bracket" ->
                Call(prev.op, a,
                     calculate_accrual_bracket(a.claim_stage, a.severity_bracket,
                                               a.investigation_duration, a.ibnr_flag))
           [] prev.op = "estimate_claim_accrual" ->
                Call(prev.op, a,
                     estimate_claim_accrual(now, a.claim_type, a.incurred_loss,
                                            a.paid_loss, a.occurrence, a.settlement,
                                            a.risk_level, a.discount_rate))

NextRepeat ==
  \/ (prev = NoCall /\ Call_calculate_accrual)
  \/ (prev = NoCall /\ Call_calculate_accrual_bracket)
  \/ (prev = NoCall /\ Call_estimate_claim_accrual)
  \/ Remember
  \/ Tick
  \/ Between
  \/ Return
  \/ Repeat

SpecRepeat == Init /\ [][NextRepeat]_vars

----------------------------------------------------------------------------
(* Properties.                                                              *)

InTable(claim_type) == claim_type \in DOMAIN LDF_PATTERNS
KnownRisk(risk_level) == risk_level \in DOMAIN RISK_ADJUSTMENT_FACTORS

(* s[i] * ... * s[j], multiplied from the left, 1.0 for an empty range.     *)
RECURSIVE RangeProd(_, _, _)
RangeProd(s, i, j) == IF i > j THEN FScale ELSE MulF(RangeProd(s, i, j - 1), s[j])

(* The cumulative factor of a pattern at the 0-based index p >= 0: 1.0 at   *)
(* or beyond the last index, else the product from index p to the end.      *)
RemainingFactor(ldfs, p) ==
  IF p >= Len(ldfs) - 1 THEN FScale ELSE RangeProd(ldfs, p + 1, Len(ldfs))

(* C1: the total accrual a call returns (calculate_accrual) or computes     *)
(* (estimate_claim_accrual) is the present value of the outstanding claims  *)
(* plus the risk adjustment of the same result.                             *)
C1_TotalAccrualIdentity ==
  /\ Done("calculate_accrual") =>
       ret.total_accrual = ret.pv_outstanding + ret.risk_adjustment
  /\ Done("estimate_claim_accrual") =>
       ret.total_accrual = ret.pv_outstanding + ret.risk_adjustment

(* C1 witness: a call whose outstanding claims are discounted (the present  *)
(* value differs from the outstanding amount) with a risk adjustment.       *)
C1_Witness ==
  /\ Done("calculate_accrual")
  /\ ret.pv_outstanding # ret.outstanding_claims
  /\ ret.risk_adjustment > 0
  /\ ret.total_accrual = ret.pv_outstanding + ret.risk_adjustment

(* C2: for a claim type of the table and a period p >= 0 the cumulative     *)
(* factor is 1.0 when p is at or beyond the last index of the pattern and   *)
(* the product of the factors from index p to the end otherwise; the older  *)
(* calculate_ultimate_loss scales the incurred loss by that factor.         *)
C2_CumulativeFactor ==
  /\ (Done("get_cumulative_factor") /\ InTable(args.claim_type)
        /\ args.development_period >= 0) =>
       ret.value = RemainingFactor(LDF_PATTERNS[args.claim_type],
                                   args.development_period)
  /\ (Done("calculate_ultimate_loss") /\ InTable(args.claim_type)
        /\ args.months_since_occurrence >= 0) =>
       ret.value = MulF(args.incurred_loss,
                        RemainingFactor(LDF_PATTERNS[args.claim_type],
                                        args.months_since_occurrence \div 12))

(* C2 witness: a period strictly inside the pattern, where the factor is a  *)
(* product of several factors and not 1.0.                                  *)
C2_Witness ==
  /\ Done("get_cumulative_factor")
  /\ args.claim_type = "Liability"
  /\ args.development_period = 7
  /\ ret.value = MulF(MulF(1050, 1020), 1010)

(* C3: the period is clamped to [0, len - 1]: a period below 0 gives the    *)
(* cumulative factor of period 0 and a period above the last index gives    *)
(* that of the last index.                                                  *)
C3_PeriodClamped ==
  /\ Done("get_cumulative_factor") =>
       LET last == Len(PatternsGet(args.claim_type)) - 1
           clamped == Max(0, Min(args.development_period, last))
       IN  ret.value = get_cumulative_factor(args.claim_type, clamped)
  /\ Done("calculate_ultimate_loss") =>
       LET last == Len(PatternsGet(args.claim_type)) - 1
           clamped == Max(0, Min(args.months_since_occurrence \div 12, last))
       IN  ret.value = calculate_ultimate_loss(args.incurred_loss, args.claim_type,
                                               12 * clamped)

(* C4: a claim type that is not a key of the table gives the cumulative     *)
(* factor, ultimate loss and IBNR of "Auto" for the same incurred loss and  *)
(* period.                                                                  *)
C4_UnknownTypeIsAuto ==
  /\ (Done("get_cumulative_factor") /\ ~InTable(args.claim_type)) =>
       ret.value = get_cumulative_factor("Auto", args.development_period)
  /\ (Done("estimate_ultimate") /\ ~InTable(args.claim_type)) =>
       LET auto == estimate_ultimate(args.incurred, "Auto", args.development_period)
       IN  /\ ret.cumulative_factor = auto.cumulative_factor
           /\ ret.ultimate_loss = auto.ultimate_loss
           /\ ret.ibnr = auto.ibnr
  /\ (Done("calculate_ultimate_loss") /\ ~InTable(args.claim_type)) =>
       ret.value = calculate_ultimate_loss(args.incurred_loss, "Auto",
                                           args.months_since_occurrence)

(* C4 witness: "Marine" at period 0 develops like "Auto", by 16.573.        *)
C4_Witness ==
  /\ Done("estimate_ultimate")
  /\ args.claim_type = "Marine"
  /\ args.development_period = 0
  /\ args.incurred = 1000
  /\ ret.cumulative_factor = 16573
  /\ ret.ibnr = 15573

(* C5: with a risk level that is not a key of the factor table, every       *)
(* operation that takes a risk level completes without a failure and the    *)
(* risk adjustment is the ultimate loss times 0.10.                         *)
C5_UnknownRiskIsMedium ==
  /\ (Done("RiskAdjustment.calculate") /\ ~KnownRisk(args.risk_level)) =>
       ret.risk_factor = 100 /\ ret.risk_adjustment = MulF(args.ultimate_loss, 100)
  /\ (Done("calculate_risk_adjustment") /\ ~KnownRisk(args.risk_level)) =>
       ret.value = MulF(args.ultimate_loss, 100)
  /\ (Done("calculate_accrual") /\ ~KnownRisk(args.risk_level)) =>
       ret.risk_adjustment = MulF(ret.ultimate_loss, 100)
  /\ (Done("estimate_claim_accrual") /\ ~KnownRisk(args.risk_level)) =>
       ret.raised = "none" /\ ret.risk_adjustment = MulF(ret.ultimate_loss, 100)

(* C6: with a time to payment that is zero or negative the present value    *)
(* is the future value and the discount amount is 0 (discount factor 1.0),  *)
(* for Discounting.calculate_pv and for calculate_discount, at any rate.    *)
C6_NoDiscountAtOrPastMaturity ==
  /\ (Done("calculate_pv") /\ args.years <= 0) =>
       /\ ret.present_value = args.future_value
       /\ ret.discount_factor = DScale
       /\ ret.discount_amount = 0
  /\ (Done("calculate_discount") /\ args.months_to_settlement <= 0) =>
       /\ ret.present_value = args.ultimate_loss
       /\ ret.discount_amount = 0

(* C7: outstanding claims are the ultimate loss minus the paid loss, not    *)
(* clamped at 0, and the present value of the outstanding claims and the    *)
(* total accrual are computed from that value.                              *)
C7_OutstandingNotClamped ==
  /\ Done("calculate_accrual") =>
       /\ ret.outstanding_claims = ret.ultimate_loss - args.paid
       /\ ret.pv_outstanding =
            calculate_pv(rate, ret.ultimate_loss - args.paid,
                         args.years_to_settlement).present_value
       /\ ret.total_accrual = ret.pv_outstanding + ret.risk_adjustment
  /\ Done("estimate_claim_accrual") =>
       /\ ret.outstanding_claims = ret.ultimate_loss - args.paid_loss
       /\ ret.pv_outstanding =
            calculate_discount(ret.ultimate_loss - args.paid_loss,
                               ret.months_to_settlement, args.discount_rate)[1]
       /\ ret.total_accrual = ret.pv_outstanding + ret.risk_adjustment

(* C7 witness: more was paid than the ultimate loss, and the negative       *)
(* outstanding amount was discounted.                                       *)
C7_Witness ==
  /\ Done("calculate_accrual")
  /\ args.paid > ret.ultimate_loss
  /\ ret.ultimate_loss > 0
  /\ ret.outstanding_claims < 0
  /\ ret.pv_outstanding < 0
  /\ ret.pv_outstanding # ret.outstanding_claims
  /\ ret.total_accrual < ret.risk_adjustment

(* C8: the uncertainty score calculate_accrual_bracket returns lies in      *)
(* [0, 1], for every stage, severity, duration and IBNR flag.               *)
C8_UncertaintyInUnitInterval ==
  Done("calculate_accrual_bracket") =>
    /\ ret.returned[3] >= 0
    /\ ret.returned[3] <= UScale

(* C8 witness: a call in which every uncertainty rule fires; it returns the *)
(* largest score there is, 0.95.                                            *)
C8_Witness ==
  /\ Done("calculate_accrual_bracket")
  /\ args.claim_stage = "Reported"
  /\ args.severity_bracket = "Catastrophic"
  /\ args.investigation_duration > 12
  /\ args.ibnr_flag = "Yes"
  /\ ret.returned[3] = 95

(* The call Reported / 40 months / IBNR / Catastrophic has returned.        *)
C9_PathologicalInput ==
  /\ Done("calculate_accrual_bracket")
  /\ args.claim_stage = "Reported"
  /\ args.severity_bracket = "Catastrophic"
  /\ args.investigation_duration = 40
  /\ args.ibnr_flag = "Yes"

(* C9 as stated: for Reported / 40 months / IBNR / Catastrophic the         *)
(* accumulated uncertainty exceeds 1.0 before the cap and the returned      *)
(* score is exactly 1.0.                                                    *)
C9_Original_CapReached ==
  C9_PathologicalInput => ret.accumulated > UScale /\ ret.returned[3] = UScale

(* C9 amended: for Reported / 40 months / IBNR / Catastrophic the           *)
(* accumulated uncertainty is 0.25 + 0.30 + 0.20 + 0.20 = 0.95, below the   *)
(* cap, and the returned score is 0.95.                                     *)
C9_CapNotReached ==
  C9_PathologicalInput => ret.accumulated = 95 /\ ret.returned[3] = 95

(* C9 witness: that call has returned 0.95 with its three warnings.         *)
C9_Witness ==
  C9_PathologicalInput /\ ret.returned[3] = 95 /\ Len(ret.warnings) = 3

(* C10: the accrual level is mapped to the bands by the ranges <= 3 (A),    *)
(* 4..5 (B), 6..7 (C), 8..9 (D) and >= 10 (E), for every level              *)
(* calculate_accrual_bracket reaches.                                       *)
C10_Bands ==
  Done("calculate_accrual_bracket") =>
    LET level == ret.accrual_level
        band == ret.returned[1]
    IN  /\ band = "Band A (Low Reserve)" <=> level <= 3
        /\ band = "Band B (Moderate Reserve)" <=> level \in 4 .. 5
        /\ band = "Band C (Elevated Reserve)" <=> level \in 6 .. 7
        /\ band = "Band D (High Reserve)" <=> level \in 8 .. 9
        /\ band = "Band E (Maximum Reserve)" <=> level >= 10

(* C10 witness: a call at the boundary level 9, still Band D.               *)
C10_Witness ==
  /\ Done("calculate_accrual_bracket")
  /\ ret.accrual_level = 9
  /\ ret.returned[1] = "Band D (High Reserve)"

(* The call of the worked example: "Auto", incurred 50000, period 0.        *)
C11_ExampleCall ==
  /\ Done("estimate_ultimate")
  /\ args.claim_type = "Auto"
  /\ args.incurred = ExampleIncurred
  /\ args.development_period = 0

(* C11 as stated: for "Auto", incurred 50000 and period 0 the cumulative    *)
(* factor is the product of the ten Auto factors, about 14.34, and the      *)
(* ultimate loss is about 716,800.                                          *)
C11_Original_Example ==
  C11_ExampleCall =>
    /\ ret.cumulative_factor = RangeProd(LDF_PATTERNS["Auto"], 1, 10)
    /\ ret.cumulative_factor \in 14330 .. 14350
    /\ ret.ultimate_loss \in 716300 .. 717300

(* C11 amended: for "Auto", incurred 50000 and period 0 the cumulative      *)
(* factor is the product of the ten Auto factors, which is about 16.57      *)
(* (not 14.34), and the ultimate loss is about 828,700 (not 716,800).       *)
C11_Example ==
  C11_ExampleCall =>
    /\ ret.cumulative_factor = RangeProd(LDF_PATTERNS["Auto"], 1, 10)
    /\ ret.cumulative_factor \in 16560 .. 16580
    /\ ret.ultimate_loss \in 828000 .. 829000
    /\ ret.ibnr = ret.ultimate_loss - ExampleIncurred

(* C11 witness: the example call has returned its ultimate loss.            *)
C11_Witness ==
  C11_ExampleCall /\ ret.ultimate_loss > 800000

(* C12: the accrual batch returns one row per input row, in the same order, *)
(* and the i-th row is the i-th input row followed by the result of         *)
(* calculate_accrual on that row alone.                                     *)
C12_BatchIsMap ==
  Done("IFRS17Accrual.batch_calculate") =>
    LET inp == args.claims_df
        out == ret.returned
    IN  /\ ret.raised = "none"
        /\ Len(out.data) = Len(inp.data)
        /\ \A i \in 1 .. Len(inp.data) :
             LET row == inp.data[i]
                 single == calculate_accrual(rate, row[1], row[2], row[3], row[4],
                                             row[5], row[6])
             IN  out.data[i] =
                   row \o [ k \in 1 .. Len(AccrualKeys) |-> single[AccrualKeys[k]] ]

(* C12 witness: a batch of two different claims has been computed.          *)
C12_Witness ==
  /\ Done("IFRS17Accrual.batch_calculate")
  /\ Len(args.claims_df.data) = 2
  /\ args.claims_df.data[1] # args.claims_df.data[2]
  /\ Len(ret.returned.data) = 2
  /\ Len(ret.returned.data[2]) = Len(ClaimColumns) + Len(AccrualKeys)

(* C13: two invocations of calculate_accrual, calculate_accrual_bracket or  *)
(* estimate_claim_accrual with identical arguments return identical         *)
(* results, whatever the time of the call and whatever ran in between.      *)
C13_Deterministic ==
  (pc = "done" /\ prev.op = op /\ prev.args = args) =>
    IF op = "estimate_claim_accrual"
    THEN /\ ret.ultimate_loss = prev.ret.ultimate_loss
         /\ ret.outstanding_claims = prev.ret.outstanding_claims
         /\ ret.risk_adjustment = prev.ret.risk_adjustment
         /\ ret.pv_ultimate = prev.ret.pv_ultimate
         /\ ret.pv_outstanding = prev.ret.pv_outstanding
         /\ ret.discount_amount = prev.ret.discount_amount
         /\ ret.total_accrual = prev.ret.total_accrual
    ELSE ret = prev.ret

(* C14: calculate_accrual_bracket returns the 4-tuple (accrual_bracket,     *)
(* warnings, uncertainty, explanation) its docstring announces, the         *)
(* warnings being a component of their own.                                 *)
C14_ReturnsWarnings ==
  Done("calculate_accrual_bracket") =>
    /\ Len(ret.returned) = 4
    /\ ret.returned[1] = ret.bracket
    /\ ret.returned[2] = ret.warnings
    /\ ret.returned[3] = ret.uncertainty_score

(* The rule table of the classifier.                                        *)
RuleStageWeight(stage) ==
  CASE stage = "Reported" -> 1
    [] stage = "Under Investigation" -> 2
    [] stage = "Evaluated" -> 3
    [] stage = "Settlement Negotiation" -> 4
    [] stage = "Closed" -> 5
    [] OTHER -> 1

RuleSeverityWeight(severity) ==
  CASE severity = "Minor" -> 1
    [] severity = "Moderate" -> 2
    [] severity = "Severe" -> 3
    [] severity = "Catastrophic" -> 4
    [] OTHER -> 1

RuleLevel(a) ==
  RuleStageWeight(a.claim_stage) + RuleSeverityWeight(a.severity_bracket)
  + (IF a.investigation_duration > 12 THEN 2
     ELSE IF a.investigation_duration > 6 THEN 1 ELSE 0)
  + (IF a.ibnr_flag = "Yes" THEN 2 ELSE 0)

RuleUncertainty(a) ==
  Min(UScale,
      (IF a.investigation_duration > 12 THEN 25
       ELSE IF a.investigation_duration > 6 THEN 15 ELSE 0)
      + (IF a.ibnr_flag = "Yes" THEN 30 ELSE 0)
      + (IF a.claim_stage = "Reported" THEN 20
         ELSE IF a.claim_stage = "Under Investigation" THEN 15 ELSE 0)
      + (IF a.severity_bracket = "Catastrophic" THEN 20 ELSE 0))

C15_ExampleCall ==
  /\ Done("calculate_accrual_bracket")
  /\ args.claim_stage = "Under Investigation"
  /\ args.severity_bracket = "Moderate"
  /\ args.investigation_duration = 3
  /\ args.ibnr_flag = "No"

(* C15: for every input the accrual level and the uncertainty score agree   *)
(* with the rule table; Under Investigation / Moderate / 3 months / no IBNR *)
(* gives level 4, "Band B (Moderate Reserve)" and uncertainty 0.15.         *)
C15_RuleTable ==
  /\ Done("calculate_accrual_bracket") =>
       /\ ret.accrual_level = RuleLevel(args)
       /\ ret.returned[3] = RuleUncertainty(args)
  /\ C15_ExampleCall =>
       /\ ret.accrual_level = 4
       /\ ret.returned[1] = "Band B (Moderate Reserve)"
       /\ ret.returned[3] = 15

(* C15 witness: the example call has returned with level 4, Band B and      *)
(* uncertainty 0.15.                                                        *)
C15_Witness ==
  /\ C15_ExampleCall
  /\ ret.accrual_level = 4
  /\ ret.returned[1] = "Band B (Moderate Reserve)"
  /\ ret.returned[3] = 15

(* C16 as stated: for every type of the table and every period p with       *)
(* 0 <= p <= last index the cumulative factor is the product of the factors *)
(* from index p through the last index, including at p = last index.        *)
C16_Original_ProductToMaturity ==
  (Done("get_cumulative_factor") /\ InTable(args.claim_type)
     /\ args.development_period \in 0 .. (Len(LDF_PATTERNS[args.claim_type]) - 1)) =>
    ret.value = RangeProd(LDF_PATTERNS[args.claim_type], args.development_period + 1,
                          Len(LDF_PATTERNS[args.claim_type]))

(* C16 amended: for 0 <= p < last index the cumulative factor is the        *)
(* product of the factors from index p through the last index; at p = last  *)
(* index it is 1.0, which is the last factor for Auto, Property and Health  *)
(* and is not for Liability and Workers Comp (last factor 1.01).            *)
C16_ProductBeforeMaturity ==
  (Done("get_cumulative_factor") /\ InTable(args.claim_type)) =>
    LET ldfs == LDF_PATTERNS[args.claim_type]
        last == Len(ldfs) - 1
        p == args.development_period
    IN  /\ p \in 0 .. (last - 1) => ret.value = RangeProd(ldfs, p + 1, Len(ldfs))
        /\ p = last =>
             /\ ret.value = FScale
             /\ ret.value = ldfs[Len(ldfs)]
                  <=> args.claim_type \in {"Auto", "Property", "Health"}

(* C16 witness: Liability at its last index: the factor returned is 1.0,    *)
(* the last factor of the pattern is 1.01.                                  *)
C16_Witness ==
  /\ Done("get_cumulative_factor")
  /\ args.claim_type = "Liability"
  /\ args.development_period = 9
  /\ ret.value = FScale
  /\ LDF_PATTERNS["Liability"][10] = 1010

(* C17: after a batch operation returns, the frame the caller passed has    *)
(* the columns and the values it had before the call.                       *)
C17_InputUnchanged ==
  (pc = "done" /\ op \in { "ChainLadder.batch_estimate",
                            "RiskAdjustment.batch_calculate",
                            "Discounting.batch_calculate",
                            "IFRS17Accrual.batch_calculate",
                            "get_summary_statistics" }) =>
    /\ claims_df.columns = args.claims_df.columns
    /\ claims_df.data = args.claims_df.data

(* C18: calculate_ultimate_loss(incurred, claim_type, months) returns the   *)
(* ultimate_loss of estimate_ultimate(incurred, claim_type, months // 12),  *)
(* for every claim type, in the table or not, and every number of months.   *)
C18_ChainLaddersAgree ==
  Done("calculate_ultimate_loss") =>
    ret.value = estimate_ultimate(args.incurred_loss, args.claim_type,
                                  args.months_since_occurrence \div 12).ultimate_loss

(* C18 witness: 17 months of a Liability claim, developed like period 1.    *)
C18_Witness ==
  /\ Done("calculate_ultimate_loss")
  /\ args.claim_type = "Liability"
  /\ args.months_since_occurrence = 17
  /\ args.incurred_loss = 1000
  /\ ret.value > 1000
  /\ ret.value = estimate_ultimate(1000, "Liability", 1).ultimate_loss

====
